---- MODULE Spec2Model ----
(***************************************************************************)
(* make_helical_loopbrush (polymer_simulations/starting_conformations.py)  *)
(* as a state machine: one call is executed line by line, and a call that  *)
(* has ended may be repeated with the same arguments.                      *)
(*                                                                         *)
(* Geometry is kept symbolic and exact (real arithmetic, no rounding):     *)
(*   - a phase is an integer number of phase units, one unit being         *)
(*     2*pi / (bb_linear_density * helix_turn_len), so line 62 gives       *)
(*     helix_total_winding = bb_len - 1 units;                             *)
(*   - a point is  HelixPoint(phase) + jitter + (a bag of direction        *)
(*     vectors), or the zero vector np.zeros left there plus the same;     *)
(*   - a direction vector is the term built by lines 74-82 from the two    *)
(*     anchor points (and, in the randomized branch, a random draw).       *)
(* helix_radius, helix_step and bb_linear_density are positive and fixed,  *)
(* so helix points of different phases are different points.               *)
(* Every direction vector is taken to have non-zero length before line 82  *)
(* divides by it (a zero vector would make u, and the arms, NaN).          *)
(*                                                                         *)
(* Lines 71 and 74 read the names kwargs and random_loop_orientation,      *)
(* which the function neither takes as parameters nor assigns: Python      *)
(* looks them up in the module's globals at the time of the call.  The     *)
(* module as shipped binds neither; the variable `globals` holds the       *)
(* binding of each (unbound, or bound to a value by the importing code).   *)
(***************************************************************************)
EXTENDS Integers, Sequences, FiniteSets, Bags

\* ---------------------------------------------------------------- bounds
MaxL == 6
MaxLoops == 2
MaxResolverL == 10

\* values the jitter magnitude takes, and the rows np.random.random can give
ShiftVals == {0, 1}
RowVals == {<<0, 0, 0>>, <<1, 0, 1>>}
DrawVals == {0, 1}

VARIABLES
  L, loops, bb_random_shift, random_loop_orientations,  \* arguments
  globals,                                              \* module globals
  coords, loopstarts, loopends, looplens,               \* locals
  bbidxs, bb_len, bb_phases, i, j, u,
  pc, exc, result,                                      \* control, outcome
  prev,                                                 \* the call before
  writes                                                \* log of lines 84-85

args == <<L, loops, bb_random_shift, random_loop_orientations>>
locals == <<coords, loopstarts, loopends, looplens, bbidxs, bb_len,
            bb_phases, i, j, u>>
vars == <<args, globals, locals, pc, exc, result, prev, writes>>

\* ------------------------------------------------------- arrays, 0-based
\* the indices of an array of length n
Idx(n) == 0..(n - 1)
ALen(a) == Cardinality(DOMAIN a)
Empty == << >>

Min2(p) == IF p[1] <= p[2] THEN p[1] ELSE p[2]
Max2(p) == IF p[1] >= p[2] THEN p[1] ELSE p[2]

\* np.arange(lo, hi): lo, lo+1, .., hi-1; empty when hi <= lo
Arange(lo, hi) == [k \in Idx(IF hi > lo THEN hi - lo ELSE 0) |-> lo + k]

\* np.concatenate of two arrays
Concat2(a, b) ==
  [k \in Idx(ALen(a) + ALen(b)) |->
     IF k < ALen(a) THEN a[k] ELSE b[k - ALen(a)]]

RECURSIVE ConcatAll(_)
ConcatAll(parts) ==
  IF Len(parts) = 0 THEN Empty
  ELSE Concat2(parts[1], ConcatAll(Tail(parts)))

\* ------------------------------------------------------------- geometry
NoDirs == EmptyBag
ZeroPoint == [base |-> << >>, jit |-> <<0, 0, 0>>, dirs |-> NoDirs]
HelixPoint(phase) == [base |-> <<phase>>, jit |-> <<0, 0, 0>>, dirs |-> NoDirs]
NoVector == [mode |-> "none", a |-> ZeroPoint, b |-> ZeroPoint, rnd |-> << >>]

\* point + random row * magnitude (line 70-71, one row of the product)
AddJitter(p, row, shift) ==
  [p EXCEPT !.jit = [c \in 1..3 |-> p.jit[c] + row[c] * shift]]

\* point + direction vector
Plus(p, d) == [p EXCEPT !.dirs = @ (+) SetToBag({d})]

\* np.linspace(0, stop, num): num evenly spaced values, both ends included
Linspace(stop, num) ==
  [k \in Idx(num) |-> IF num = 1 THEN 0 ELSE k * (stop \div (num - 1))]

\* ------------------------------------------------------------ arguments
\* a loop list obeying the documented contract: pairs (start, end) inside
\* 0..L-1 with start < end, ascending, end of one before start of the next
ValidLoops(LL, ls) ==
  /\ \A n \in 1..Len(ls) :
       /\ 0 <= ls[n][1] /\ ls[n][1] < ls[n][2] /\ ls[n][2] <= LL - 1
  /\ \A n \in 1..(Len(ls) - 1) : ls[n][2] < ls[n + 1][1]

Pairs(LL) == {p \in (0..LL) \X (0..LL) : p[1] < p[2]}
LoopLists(LL) == UNION {[1..n -> Pairs(LL)] : n \in 0..MaxLoops}

ValidLists(LL) == {ls \in LoopLists(LL) : ValidLoops(LL, ls)}

\* lists that break the contract, each made from a valid one:
\* the first two loops exchanged (not ascending)
Unsorted(ls) == <<ls[2], ls[1]>> \o SubSeq(ls, 3, Len(ls))
\* the first two loops (a,b), (c,d) turned into (a,c), (b,d) (overlapping)
Overlapping(ls) ==
  <<<<ls[1][1], ls[2][1]>>, <<ls[1][2], ls[2][2]>>>> \o SubSeq(ls, 3, Len(ls))
\* the last loop ending at L, one past the chain (out of range)
OutOfRange(LL, ls) ==
  SubSeq(ls, 1, Len(ls) - 1) \o <<<<ls[Len(ls)][1], LL>>>>

InvalidLists(LL) ==
  {Unsorted(ls) : ls \in {v \in ValidLists(LL) : Len(v) >= 2}}
  \cup {Overlapping(ls) : ls \in {v \in ValidLists(LL) : Len(v) >= 2}}
  \cup {OutOfRange(LL, ls) : ls \in {v \in ValidLists(LL) : Len(v) >= 1}}

InputLoops(LL) == ValidLists(LL) \cup InvalidLists(LL)

Unbound == << >>
Bound(v) == <<v>>
IsBound(g) == Len(g) = 1
ValueOf(g) == g[1]

\* bindings the importing code can give the two free names
GlobalEnvs ==
  [kwargs : {Unbound, Bound(<< >>)}
              \cup {Bound([bb_random_shift |-> s]) : s \in ShiftVals \ {0}},
   random_loop_orientation : {Unbound, Bound(FALSE), Bound(TRUE)}]

\* the module as shipped: neither name is bound
ShippedGlobals ==
  [kwargs |-> Unbound, random_loop_orientation |-> Unbound]

\* dict.get(key, default)
DictGet(d, key, default) == IF key \in DOMAIN d THEN d[key] ELSE default

NoOutcome == [pc |-> "none", exc |-> "none", result |-> Empty]

FreshLocals ==
  /\ coords = Empty /\ loopstarts = Empty /\ loopends = Empty
  /\ looplens = Empty /\ bbidxs = Empty /\ bb_len = 0 /\ bb_phases = Empty
  /\ i = 0 /\ j = 0 /\ u = NoVector

Init ==
  /\ L \in 1..MaxL
  /\ loops \in InputLoops(L)
  /\ bb_random_shift \in ShiftVals
  /\ random_loop_orientations \in BOOLEAN
  /\ globals \in GlobalEnvs
  /\ FreshLocals
  /\ pc = "l45" /\ exc = "none" /\ result = Empty
  /\ prev = NoOutcome
  /\ writes = << >>

\* ------------------------------------------------------------ operations
Raise(e) ==
  /\ pc' = "raised" /\ exc' = e

InRange(c, k) == k \in DOMAIN c

\* a[idx] = vals with an index array: the last occurrence of an index wins
Scatter(c, idx, vals) ==
  [x \in DOMAIN c |->
     LET hits == {k \in DOMAIN idx : idx[k] = x}
     IN IF hits = {} THEN c[x]
        ELSE vals[CHOOSE k \in hits : \A m \in hits : m <= k]]

\* lines 45-48
Alloc ==
  /\ pc = "l45"
  /\ coords' = [k \in Idx(L) |-> ZeroPoint]
  /\ loopstarts' = [k \in Idx(Len(loops)) |-> Min2(loops[k + 1])]
  /\ loopends' = [k \in Idx(Len(loops)) |-> Max2(loops[k + 1])]
  /\ looplens' = [k \in Idx(Len(loops)) |-> loopends'[k] - loopstarts'[k]]
  /\ pc' = "l50"
  /\ UNCHANGED <<args, globals, bbidxs, bb_len, bb_phases, i, j, u,
                 exc, result, prev, writes>>

\* lines 52 and 53 without the "+1": the loop starts are left out
BbIdxsNoStart(LL, ls, starts, ends) ==
  IF Len(ls) > 0
  THEN ConcatAll(<<Arange(0, starts[0])>>
                 \o [n \in 1..(Len(ls) - 1) |->
                       Arange(ends[n - 1], starts[n])]
                 \o <<Arange(ends[Len(ls) - 1], LL)>>)
  ELSE Arange(0, LL)

\* lines 50-57: the backbone index sequence
BbIdxs(LL, ls, starts, ends) ==
  IF Len(ls) > 0
  THEN ConcatAll(<<Arange(0, starts[0] + 1)>>
                 \o [n \in 1..(Len(ls) - 1) |->
                       Arange(ends[n - 1], starts[n] + 1)]
                 \o <<Arange(ends[Len(ls) - 1], LL)>>)
  ELSE Arange(0, LL)

\* lines 50-58
Resolve ==
  /\ pc = "l50"
  /\ bbidxs' = BbIdxs(L, loops, loopstarts, loopends)
  /\ bb_len' = ALen(bbidxs')
  /\ pc' = "l60"
  /\ UNCHANGED <<args, globals, coords, loopstarts, loopends, looplens,
                 bb_phases, i, j, u, exc, result, prev, writes>>

\* line 62, in phase units
HelixTotalWinding(n) == n - 1

\* lines 60-69
Helix ==
  /\ pc = "l60"
  /\ bb_phases' = Linspace(HelixTotalWinding(bb_len), bb_len)
  /\ IF \E k \in DOMAIN bbidxs : ~InRange(coords, bbidxs[k])
     THEN Raise("IndexError") /\ UNCHANGED coords
     ELSE /\ coords' = Scatter(coords, bbidxs,
                         [k \in Idx(bb_len) |-> HelixPoint(bb_phases'[k])])
          /\ pc' = "l70" /\ UNCHANGED exc
  /\ UNCHANGED <<args, globals, loopstarts, loopends, looplens, bbidxs,
                 bb_len, i, j, u, result, prev, writes>>

\* np.random.random(n * 3).reshape(n, 3): the arrays the source may give
RandomArrays(n) == {[k \in Idx(n) |-> row] : row \in RowVals}

\* lines 70-71: the random array is drawn, then kwargs is looked up
Jitter ==
  /\ pc = "l70"
  /\ \E rnd \in RandomArrays(bb_len) :
       IF ~IsBound(globals.kwargs)
       THEN Raise("NameError") /\ UNCHANGED coords
       ELSE LET shift == DictGet(ValueOf(globals.kwargs),
                                 "bb_random_shift", 0)
            IN /\ coords' = Scatter(coords, bbidxs,
                     [k \in Idx(bb_len) |->
                        AddJitter(coords[bbidxs[k]], rnd[k], shift)])
               /\ pc' = "l73" /\ UNCHANGED exc
  /\ i' = 0
  /\ UNCHANGED <<args, globals, loopstarts, loopends, looplens, bbidxs,
                 bb_len, bb_phases, j, u, result, prev, writes>>

\* line 73: for i in range(len(loops))
ForLoops ==
  /\ pc = "l73"
  /\ pc' = IF i < Len(loops) THEN "l74" ELSE "l87"
  /\ UNCHANGED <<args, globals, locals, exc, result, prev, writes>>

\* lines 75-77 and 82
RandomDirection(c, pair, d) ==
  [mode |-> "random", a |-> c[pair[1]], b |-> c[pair[2]], rnd |-> <<d>>]

\* lines 79-80 and 82
AnchoredDirection(c, pair) ==
  [mode |-> "anchored", a |-> c[pair[1]], b |-> c[pair[2]], rnd |-> << >>]

\* lines 74-82
Direction ==
  /\ pc = "l74"
  /\ LET pair == loops[i + 1]
         flag == globals.random_loop_orientation
     IN \E d \in DrawVals :
          IF ~IsBound(flag)
          THEN Raise("NameError") /\ UNCHANGED u
          ELSE IF ~InRange(coords, pair[1]) \/ ~InRange(coords, pair[2])
          THEN Raise("IndexError") /\ UNCHANGED u
          ELSE /\ u' = IF ValueOf(flag)
                       THEN RandomDirection(coords, pair, d)
                       ELSE AnchoredDirection(coords, pair)
               /\ pc' = "l83" /\ UNCHANGED exc
  /\ j' = 0
  /\ UNCHANGED <<args, globals, coords, loopstarts, loopends, looplens,
                 bbidxs, bb_len, bb_phases, i, result, prev, writes>>

\* the step count taken from the number of interior particles
NumStepsInterior(looplen) == (looplen - 1) \div 2

\* line 83: range(looplens[i] // 2)
NumSteps(looplen) == looplen \div 2

\* line 83: for j in range(looplens[i] // 2)
ForSteps ==
  /\ pc = "l83"
  /\ IF j < NumSteps(looplens[i])
     THEN pc' = "l84" /\ UNCHANGED i
     ELSE pc' = "l73" /\ i' = i + 1
  /\ UNCHANGED <<args, globals, coords, loopstarts, loopends, looplens,
                 bbidxs, bb_len, bb_phases, j, u, exc, result, prev,
                 writes>>

\* line 84 writing the index it reads
StartArmDstNoStep(s, jj) == s + jj
\* line 85 writing the index it reads
EndArmDstNoStep(e, jj) == e - jj
\* line 85 reading the anchor at every step
EndArmSrcAnchor(e, jj) == e

\* line 84: indices written and read
StartArmDst(s, jj) == s + jj + 1
StartArmSrc(s, jj) == s + jj
\* line 85: indices written and read
EndArmDst(e, jj) == e - jj - 1
EndArmSrc(e, jj) == e - jj

ArmWrite(line, dst, src) ==
  IF ~InRange(coords, src) \/ ~InRange(coords, dst)
  THEN Raise("IndexError") /\ UNCHANGED <<coords, writes>>
  ELSE /\ coords' = [coords EXCEPT ![dst] = Plus(coords[src], u)]
       /\ writes' = Append(writes, [loop |-> i, line |-> line, dst |-> dst,
                                    src |-> src, u |-> u,
                                    val |-> Plus(coords[src], u)])
       /\ pc' = IF line = 84 THEN "l85" ELSE "l83"
       /\ UNCHANGED exc

\* line 84
ArmStart ==
  /\ pc = "l84"
  /\ ArmWrite(84, StartArmDst(loopstarts[i], j), StartArmSrc(loopstarts[i], j))
  /\ UNCHANGED <<args, globals, loopstarts, loopends, looplens, bbidxs,
                 bb_len, bb_phases, i, j, u, result, prev>>

\* line 85, and the step of j
ArmEnd ==
  /\ pc = "l85"
  /\ ArmWrite(85, EndArmDst(loopends[i], j), EndArmSrc(loopends[i], j))
  /\ j' = j + 1
  /\ UNCHANGED <<args, globals, loopstarts, loopends, looplens, bbidxs,
                 bb_len, bb_phases, i, u, result, prev>>

\* line 87
Return ==
  /\ pc = "l87"
  /\ result' = coords
  /\ pc' = "done"
  /\ UNCHANGED <<args, globals, locals, exc, prev, writes>>

Ended == pc \in {"done", "raised"}

\* the caller calls again with the same arguments; the locals are fresh
CallAgain ==
  /\ Ended
  /\ prev' = [pc |-> pc, exc |-> exc, result |-> result]
  /\ coords' = Empty /\ loopstarts' = Empty /\ loopends' = Empty
  /\ looplens' = Empty /\ bbidxs' = Empty /\ bb_len' = 0
  /\ bb_phases' = Empty /\ i' = 0 /\ j' = 0 /\ u' = NoVector
  /\ pc' = "l45" /\ exc' = "none" /\ result' = Empty
  /\ writes' = << >>
  /\ UNCHANGED <<args, globals>>

Next ==
  \/ Alloc
  \/ Resolve
  \/ Helix
  \/ Jitter
  \/ ForLoops
  \/ Direction
  \/ ForSteps
  \/ ArmStart
  \/ ArmEnd
  \/ Return
  \/ CallAgain

Spec == Init /\ [][Next]_vars

\* ------------------------------------------- the resolver on longer chains
RECURSIVE SortedSeq(_)
SortedSeq(S) ==
  IF S = {} THEN << >>
  ELSE LET lo == CHOOSE x \in S : \A y \in S : x <= y
       IN <<lo>> \o SortedSeq(S \ {lo})

\* the valid loop list whose anchors are the 2n indices of S
PairUp(S) ==
  LET q == SortedSeq(S)
  IN [n \in 1..(Len(q) \div 2) |-> <<q[2 * n - 1], q[2 * n]>>]

AllValidLists(LL) ==
  {PairUp(S) : S \in {T \in SUBSET (0..(LL - 1)) : Cardinality(T) % 2 = 0}}

InitResolver ==
  /\ L \in 1..MaxResolverL
  /\ loops \in AllValidLists(L)
  /\ bb_random_shift = 0
  /\ random_loop_orientations = FALSE
  /\ globals = ShippedGlobals
  /\ FreshLocals
  /\ pc = "l45" /\ exc = "none" /\ result = Empty
  /\ prev = NoOutcome
  /\ writes = << >>

NextResolver ==
  \/ Alloc
  \/ Resolve

SpecResolver == InitResolver /\ [][NextResolver]_vars

TypeOK ==
  /\ pc \in {"l45", "l50", "l60", "l70", "l73", "l74", "l83", "l84", "l85",
             "l87", "done", "raised"}
  /\ exc \in {"none", "NameError", "IndexError"}
  /\ (pc = "raised") = (exc # "none")
  /\ (pc = "done") => ALen(result) = L

\* ------------------------------------------------------------ properties
Valid == ValidLoops(L, loops)
DefaultOptions == bb_random_shift = 0 /\ random_loop_orientations = FALSE

LoopStart(k) == loops[k + 1][1]
LoopEnd(k) == loops[k + 1][2]
NInterior(k) == LoopEnd(k) - LoopStart(k) - 1
InteriorOf(k) == (LoopStart(k) + 1)..(LoopEnd(k) - 1)
LoopIds == 0..(Len(loops) - 1)
AllInterior == UNION {InteriorOf(k) : k \in LoopIds}
BackboneSet == (0..(L - 1)) \ AllInterior

RECURSIVE SumInterior(_)
SumInterior(k) == IF k = 0 THEN 0 ELSE NInterior(k - 1) + SumInterior(k - 1)

Resolved == pc \notin {"l45", "l50"}

\* C2: for a valid loop list the backbone index sequence is strictly
\* ascending (so without duplicates), its elements are exactly 0..L-1 minus
\* the open intervals (start_i, end_i), it holds 0, L-1 and both anchors of
\* every loop, bb_len = L - sum_i (end_i - start_i - 1), and for L = 10,
\* loops = [(2,6)] it is 0,1,2,6,7,8,9.
C2_BackboneIndices ==
  (Resolved /\ Valid) =>
    /\ \A k \in DOMAIN bbidxs :
         (k + 1) \in DOMAIN bbidxs => bbidxs[k] < bbidxs[k + 1]
    /\ {bbidxs[k] : k \in DOMAIN bbidxs} = BackboneSet
    /\ DOMAIN bbidxs = 0..(bb_len - 1)
    /\ bb_len = L - SumInterior(Len(loops))
    /\ 0 \in {bbidxs[k] : k \in DOMAIN bbidxs}
    /\ (L - 1) \in {bbidxs[k] : k \in DOMAIN bbidxs}
    /\ \A n \in LoopIds :
         {LoopStart(n), LoopEnd(n)} \subseteq {bbidxs[k] : k \in DOMAIN bbidxs}
    /\ (L = 10 /\ loops = <<<<2, 6>>>>) =>
         bbidxs = [k \in 0..6 |-> IF k <= 2 THEN k ELSE k + 3]

C2_Witness ==
  /\ Resolved /\ L = 10 /\ loops = <<<<2, 6>>>>
  /\ bb_len = 7 /\ bbidxs[3] = 6

\* C1: for L >= 1, a valid loop list and default options, a call with the
\* module as shipped completes and returns exactly L points.
C1_CallReturnsLPoints ==
  (globals = ShippedGlobals /\ Valid /\ DefaultOptions /\ Ended) =>
    (pc = "done" /\ DOMAIN result = 0..(L - 1))

\* C3: a loop list that overlaps, is not ascending or leaves 0..L-1 makes
\* the call fail with InvalidLoopSpecification before any coordinate is
\* computed or written, and nothing is returned.
C3_InvalidLoopsRejected ==
  ~Valid =>
    /\ pc # "done"
    /\ pc = "raised" => exc = "InvalidLoopSpecification"
    /\ \A k \in DOMAIN coords : coords[k] = ZeroPoint

\* p + n d
RECURSIVE PlusN(_, _, _)
PlusN(p, n, d) == IF n = 0 THEN p ELSE PlusN(Plus(p, d), n - 1, d)

\* the log of the arm placer's writes
W == 1..Len(writes)
WritesOf(k, line) ==
  {n \in W : writes[n].loop = k /\ writes[n].line = line}
StepsDone(k, line) == Cardinality(WritesOf(k, line))
Middle(k) == (LoopStart(k) + LoopEnd(k)) \div 2
OddLoops == {k \in LoopIds : NInterior(k) % 2 = 1}
HalfUp(k) == (NInterior(k) + 1) \div 2

IsMiddleStartWrite(n) ==
  /\ writes[n].line = 84
  /\ writes[n].loop \in OddLoops
  /\ writes[n].dst = Middle(writes[n].loop)

LoopStage == pc \in {"l73", "l74", "l83", "l84", "l85", "l87"}

C9_Writers ==
  (Valid /\ pc \notin {"l45", "l50", "l60"}) =>
    /\ \A n \in W : writes[n].dst \in InteriorOf(writes[n].loop)
    /\ \A k \in AllInterior \ {writes[n].dst : n \in W} :
         coords[k] = ZeroPoint
    /\ \A q \in DOMAIN bbidxs :
         /\ coords[bbidxs[q]].base = <<bb_phases[q]>>
         /\ coords[bbidxs[q]].dirs = NoDirs
    /\ pc \in {"l83", "l84", "l85"} =>
         /\ u.a = coords[LoopStart(i)]
         /\ u.b = coords[LoopEnd(i)]
    /\ \A n \in W :
         LET w == writes[n]
         IN /\ w.u.a = coords[LoopStart(w.loop)]
            /\ w.u.b = coords[LoopEnd(w.loop)]
            /\ w.src \in {LoopStart(w.loop), LoopEnd(w.loop)} =>
                 w.val = Plus(coords[w.src], w.u)

C9_Frame ==
  (Valid /\ LoopStage) => \A k \in BackboneSet : coords'[k] = coords[k]

====
